---------------------------- MODULE Spec2Model ----------------------------
(***************************************************************************)
(* A model of the job-control shell src/Day5_JobControl/mini-shell.cpp:    *)
(* the tokenizer and the pipeline parser as operators over sequences of    *)
(* characters, and the REPL, the launcher, the job table, the terminal     *)
(* hand-over and the SIGCHLD handler as a state machine that runs beside   *)
(* the child processes the shell forks.                                    *)
(*                                                                         *)
(* A character is a one-character string, a word (std::string) is a        *)
(* sequence of characters, a line is a sequence of characters.             *)
(***************************************************************************)
EXTENDS Integers, Sequences, FiniteSets, TLC

\* ------------------------------------------------------------- bounds

\* Children the shell may fork in one session.
MaxKids == 3
\* Longest line the parser-only specification draws.
MaxLen == 4

\* ------------------------------------------------------------- text

DQ == "\""
SQ == "'"
PIPE == <<"|">>
AMP == <<"&">>
LT == <<"<">>
GT == <<">">>
GTGT == <<">", ">">>

\* The characters the parser-only specification builds lines from.
Alphabet == {"a", " ", "|", "&", ">", "<", SQ, DQ}

isspace(c) == c = " "

isoperator(c) == c \in {"|", ">", "<", "&"}

\* tokens.push_back(cur) when cur is not empty.
flush(tokens, cur) == IF cur # <<>> THEN Append(tokens, cur) ELSE tokens

RECURSIVE tokenize_from(_, _, _, _, _, _)
tokenize_from(line, i, tokens, cur, in_squote, in_dquote) ==
    IF i > Len(line) THEN flush(tokens, cur)
    ELSE LET c == line[i] IN
         IF isspace(c) /\ ~in_squote /\ ~in_dquote
         THEN tokenize_from(line, i + 1, flush(tokens, cur), <<>>, in_squote, in_dquote)
         ELSE IF c = SQ /\ ~in_dquote
         THEN tokenize_from(line, i + 1, tokens, cur, ~in_squote, in_dquote)
         ELSE IF c = DQ /\ ~in_squote
         THEN tokenize_from(line, i + 1, tokens, cur, in_squote, ~in_dquote)
         ELSE IF isoperator(c) /\ ~in_squote /\ ~in_dquote
         THEN IF c = ">" /\ i + 1 <= Len(line) /\ line[i + 1] = ">"
              THEN tokenize_from(line, i + 2, Append(flush(tokens, cur), GTGT), <<>>,
                                 in_squote, in_dquote)
              ELSE tokenize_from(line, i + 1, Append(flush(tokens, cur), <<c>>), <<>>,
                                 in_squote, in_dquote)
         ELSE tokenize_from(line, i + 1, tokens, Append(cur, c), in_squote, in_dquote)

tokenize(line) == tokenize_from(line, 1, <<>>, <<>>, FALSE, FALSE)

\* struct Command: "" (here <<>>) stands for no file.
EmptyCommand == [argv |-> <<>>, infile |-> <<>>, outfile |-> <<>>, append |-> FALSE]

ParseFail == [ok |-> FALSE, pipeline |-> <<>>, background |-> FALSE]

\* The end of parse_pipeline: push the last command when it has anything.
parse_finish(pipeline, cmd, background) ==
    LET p == IF cmd.argv # <<>> \/ cmd.infile # <<>> \/ cmd.outfile # <<>>
             THEN Append(pipeline, cmd) ELSE pipeline
    IN IF p # <<>> THEN [ok |-> TRUE, pipeline |-> p, background |-> background]
       ELSE ParseFail

RECURSIVE parse_from(_, _, _, _, _)
parse_from(tokens, i, pipeline, cmd, background) ==
    IF i > Len(tokens) THEN parse_finish(pipeline, cmd, background)
    ELSE LET t == tokens[i] IN
         IF t = PIPE
         THEN IF cmd.argv = <<>> THEN ParseFail
              ELSE parse_from(tokens, i + 1, Append(pipeline, cmd), EmptyCommand, background)
         ELSE IF t = LT
         THEN IF i + 1 > Len(tokens) THEN ParseFail
              ELSE parse_from(tokens, i + 2, pipeline,
                              [cmd EXCEPT !.infile = tokens[i + 1]], background)
         ELSE IF t = GT \/ t = GTGT
         THEN IF i + 1 > Len(tokens) THEN ParseFail
              ELSE parse_from(tokens, i + 2, pipeline,
                              [cmd EXCEPT !.outfile = tokens[i + 1], !.append = (t = GTGT)],
                              background)
         ELSE IF t = AMP /\ i = Len(tokens)
         THEN parse_from(tokens, i + 1, pipeline, cmd, TRUE)
         ELSE parse_from(tokens, i + 1, pipeline,
                         [cmd EXCEPT !.argv = Append(cmd.argv, t)], background)

parse_pipeline(tokens) ==
    IF tokens = <<>> THEN ParseFail
    ELSE parse_from(tokens, 1, <<>>, EmptyCommand, FALSE)

\* std::stoi on a word: skips leading white space, takes an optional sign and
\* the decimal digits that follow; ok is FALSE where it throws
\* std::invalid_argument (no digit to convert).
DigitValue(c) ==
    CASE c = "0" -> 0 [] c = "1" -> 1 [] c = "2" -> 2 [] c = "3" -> 3 [] c = "4" -> 4
      [] c = "5" -> 5 [] c = "6" -> 6 [] c = "7" -> 7 [] c = "8" -> 8 [] c = "9" -> 9
      [] OTHER -> -1

RECURSIVE stoi_digits(_, _, _)
stoi_digits(s, i, acc) ==
    IF i > Len(s) \/ DigitValue(s[i]) < 0 THEN acc
    ELSE stoi_digits(s, i + 1, acc * 10 + DigitValue(s[i]))

RECURSIVE stoi_skip(_, _)
stoi_skip(s, i) == IF i <= Len(s) /\ isspace(s[i]) THEN stoi_skip(s, i + 1) ELSE i

stoi(s) ==
    LET i == stoi_skip(s, 1)
        signed == i <= Len(s) /\ s[i] \in {"+", "-"}
        j == IF signed THEN i + 1 ELSE i
        v == stoi_digits(s, j, 0)
    IN IF j > Len(s) \/ DigitValue(s[j]) < 0 THEN [ok |-> FALSE, val |-> 0]
       ELSE [ok |-> TRUE, val |-> IF signed /\ s[i] = "-" THEN 0 - v ELSE v]

\* ------------------------------------------------------------- state

\* The shell's pid, which main makes its process group id.
shell_pgid == 1

STDIN_FILENO == 0

\* The pids fork hands out, in the order it hands them out.
Pids == (shell_pgid + 1)..(shell_pgid + MaxKids)

\* What the shell inherits for SIGTTOU/SIGTTIN and where it sits in its session:
\* "ign" both ignored by whoever started it, "dfl" default with a parent in the
\* same session, "orphan" default with the shell's process group orphaned (the
\* shell is the session leader).
Envs == {"ign", "dfl", "orphan"}

VARIABLES
    env,          \* the inherited environment, fixed at startup
    pc,           \* the statement of main/launch_pipeline/put_job_in_foreground the shell is at
    line,         \* main: line
    tokens,       \* main: tokens
    pipeline,     \* main: pipeline
    background,   \* main: background
    perr,         \* the last diagnostic written to stderr in this turn of the loop, "" when none
    jobs,         \* static vector<Job> jobs
    next_job_id,  \* static int next_job_id
    term,         \* the terminal's foreground process group
    kids,         \* the processes forked so far, by pid
    next_pid,     \* the pid the next fork returns
    pending,      \* SIGCHLD is pending for the shell
    l_i,          \* launch_pipeline: i
    l_pgid,       \* launch_pipeline: pgid
    prev_fd,      \* launch_pipeline: prev_fd (STDIN_FILENO, or the pipe whose read end it is)
    sh_r,         \* the pipes whose read end is open in the shell
    sh_w,         \* the pipes whose write end is open in the shell
    f_idx,        \* put_job_in_foreground: idx
    f_cont,       \* put_job_in_foreground: continue_job
    f_status,     \* put_job_in_foreground: what waitpid returned
    announced,    \* per job id, the "[id] Done" lines written so far
    created,      \* history: every job id add_job has assigned
    l_tab0,       \* history: the ids in the job table when launch_pipeline was entered
    sent          \* history: the signals sigint_handler and sigtstp_handler passed on with kill()

vars == <<env, pc, line, tokens, pipeline, background, perr, jobs, next_job_id, term,
          kids, next_pid, pending, l_i, l_pgid, prev_fd, sh_r, sh_w, f_idx, f_cont,
          f_status, announced, created, l_tab0, sent>>

textvars == <<line, tokens, pipeline, background>>
launchvars == <<l_i, l_pgid, prev_fd, l_tab0>>
fgvars == <<f_idx, f_cont, f_status>>
procvars == <<kids, next_pid, pending>>
fdvars == <<sh_r, sh_w>>

\* A process: st its state ("none" before fork, "run", "stop", "zomb", "gone"
\* once reaped), new while it is before spawn_process's tcsetpgrp, grp the pgid
\* spawn_process was given for it (its pipeline), pgid the group it is in, wst
\* the stop or continue it has to report to waitpid, wr the pipes whose write
\* end it holds.
NoKid == [st |-> "none", new |-> FALSE, grp |-> 0, pgid |-> 0, wst |-> "none", wr |-> {}]

\* A process that waitpid has reaped: nothing of it is left but the pipeline
\* it was forked for.
Reaped(kid) == [NoKid EXCEPT !.st = "gone", !.grp = kid.grp]

Live(k) == kids[k].st \in {"run", "stop", "zomb"}

\* Process group g exists: the shell's own, or one with a process (a zombie
\* included) in it.
GroupExists(g) == g = shell_pgid \/ \E k \in Pids : Live(k) /\ kids[k].pgid = g

Halted == pc \in {"exited", "stopped", "crashed"}

\* ------------------------------------------------------------- job table

Job(id, pgid, state) == [id |-> id, pgid |-> pgid, state |-> state]

Ids(js) == {js[i].id : i \in 1..Len(js)}

add_job_numbered_by_size(js, id, pgid, state) == Append(js, Job(Len(js) + 1, pgid, state))

add_job_at_front(js, id, pgid, state) == <<Job(id, pgid, state)>> \o js

\* add_job, given the id next_job_id++ yields.
add_job(js, id, pgid, state) == Append(js, Job(id, pgid, state))

\* The index (from 1) of the first job with the pgid, 0 for the code's -1.
find_job_index_by_pgid(js, pgid) ==
    IF \E i \in 1..Len(js) : js[i].pgid = pgid
    THEN CHOOSE i \in 1..Len(js) :
            js[i].pgid = pgid /\ \A h \in 1..(i - 1) : js[h].pgid # pgid
    ELSE 0

find_job_index_by_id(js, id) ==
    IF \E i \in 1..Len(js) : js[i].id = id
    THEN CHOOSE i \in 1..Len(js) : js[i].id = id /\ \A h \in 1..(i - 1) : js[h].id # id
    ELSE 0

remove_done_jobs(js) == SelectSeq(js, LAMBDA j : j.state # "DONE")

\* The "[id] Done" lines of main's loop over jobs.
print_done(js, ann) ==
    [id \in DOMAIN ann |->
        IF \E i \in 1..Len(js) : js[i].id = id /\ js[i].state = "DONE"
        THEN ann[id] + 1 ELSE ann[id]]

\* ------------------------------------------------------------- kernel

\* tcsetpgrp(shell_terminal, target) called by a process of group caller: a
\* caller outside the terminal's foreground group goes ahead only with SIGTTOU
\* ignored, fails with EIO in an orphaned group and is otherwise sent
\* SIGTTOU ("stop"); going ahead, a target that names no group changes nothing.
tcsetpgrp(caller, target) ==
    IF term = caller \/ env = "ign"
    THEN [out |-> "ok", term |-> IF GroupExists(target) THEN target ELSE term]
    ELSE IF env = "orphan" /\ caller = shell_pgid
    THEN [out |-> "eio", term |-> term]
    ELSE [out |-> "stop", term |-> term]

\* A stop signal sent to process group g: its running processes stop and
\* have a stop to report to waitpid.
StopGroup(ks, g) ==
    [k \in Pids |-> IF ks[k].st = "run" /\ ks[k].pgid = g
                    THEN [ks[k] EXCEPT !.st = "stop", !.wst = "stopped"]
                    ELSE ks[k]]

\* kill(-g, SIGCONT): the stopped processes of g run again and have a
\* continue to report.
ContGroup(ks, g) ==
    [k \in Pids |-> IF ks[k].st = "stop" /\ ks[k].pgid = g
                    THEN [ks[k] EXCEPT !.st = "run", !.wst = "cont"]
                    ELSE ks[k]]

\* kill(-g, ...) finds a process to signal.
KillFinds(g) == \E k \in Pids : Live(k) /\ kids[k].pgid = g

\* ------------------------------------------------------------- children

\* spawn_process, child side of a foreground child, up to execvp:
\* setpgid(0, pgid) repeats what the parent's setpgid did at fork, then
\* tcsetpgrp(shell_terminal, pgid).
ChildStart(k) ==
    /\ ~Halted
    /\ kids[k].st = "run" /\ kids[k].new
    /\ LET r == tcsetpgrp(kids[k].pgid, kids[k].grp) IN
            IF r.out = "stop"
            THEN /\ kids' = StopGroup(kids, kids[k].pgid)
                 /\ pc' = IF kids[k].pgid = shell_pgid THEN "stopped" ELSE pc
                 /\ UNCHANGED term
            ELSE /\ kids' = [kids EXCEPT ![k].new = FALSE]
                 /\ term' = r.term
                 /\ UNCHANGED pc
    /\ UNCHANGED <<env, textvars, perr, jobs, next_job_id, next_pid, pending,
                   launchvars, fdvars, fgvars, announced, created, sent>>

\* The program exits or is killed: a zombie, and SIGCHLD for the shell.
ChildExit(k) ==
    /\ ~Halted
    /\ kids[k].st = "run" /\ ~kids[k].new
    /\ kids' = [kids EXCEPT ![k].st = "zomb", ![k].wst = "none"]
    /\ pending' = TRUE
    /\ UNCHANGED <<env, pc, textvars, perr, jobs, next_job_id, term, next_pid,
                   launchvars, fdvars, fgvars, announced, created, sent>>

\* The program is stopped (SIGTSTP from the terminal, SIGTTIN, SIGSTOP):
\* SA_NOCLDSTOP, so no SIGCHLD.
ChildStop(k) ==
    /\ ~Halted
    /\ kids[k].st = "run" /\ ~kids[k].new
    /\ kids' = [kids EXCEPT ![k].st = "stop", ![k].wst = "stopped"]
    /\ UNCHANGED <<env, pc, textvars, perr, jobs, next_job_id, term, next_pid, pending,
                   launchvars, fdvars, fgvars, announced, created, sent>>

\* ------------------------------------------------------------- SIGCHLD

\* What sigchld_handler's waitpid(-1, WNOHANG|WUNTRACED|WCONTINUED) loop has
\* to report for the job at index i: the stops and continues of the processes
\* getpgid finds in the job's group. getpgid of a terminated child fails once
\* waitpid has reaped it, so an exit finds no job.
Reports(i) ==
    {kids[k].wst : k \in {h \in Pids : /\ Live(h) /\ kids[h].wst # "none"
                                       /\ find_job_index_by_pgid(jobs, kids[h].pgid) = i}}

StateOf(w, old) == IF w = "stopped" THEN "STOPPED" ELSE IF w = "cont" THEN "RUNNING" ELSE old

\* The handler, run to its end: every zombie reaped, every stop and continue
\* consumed, each job left in the state of the last status reported for it.
sigchld_handler ==
    /\ pending /\ ~Halted
    /\ pending' = FALSE
    /\ \E last \in [1..Len(jobs) -> {"stopped", "cont", "none"}] :
          /\ \A i \in 1..Len(jobs) :
                last[i] \in (IF Reports(i) = {} THEN {"none"} ELSE Reports(i))
          /\ jobs' = [i \in 1..Len(jobs) |->
                        [jobs[i] EXCEPT !.state = StateOf(last[i], jobs[i].state)]]
    /\ kids' = [k \in Pids |-> IF kids[k].st = "zomb" THEN Reaped(kids[k])
                               ELSE [kids[k] EXCEPT !.wst = "none"]]
    /\ UNCHANGED <<env, pc, textvars, perr, next_job_id, term, next_pid,
                   launchvars, fdvars, fgvars, announced, created, sent>>

\* ------------------------------------------------------------- REPL

CD == <<"c", "d">>
EXIT == <<"e", "x", "i", "t">>
JOBS == <<"j", "o", "b", "s">>
FG == <<"f", "g">>
BG == <<"b", "g">>

\* The lines the user types in a session.
SessionLines ==
    { <<>>,
      <<"a">>,
      <<"a", "&">>,
      <<"a", "|", "a">>,
      JOBS,
      FG \o <<" ", "%", "1">>,
      FG \o <<" ", "2">>,
      BG \o <<" ", "1">> }

\* main's test before handle_builtin: the name of the built-in a pipeline of
\* a single command without redirection asks for, <<>> when it is none.
builtin_name(p) ==
    IF /\ Len(p) = 1
       /\ p[1].infile = <<>> /\ p[1].outfile = <<>>
       /\ p[1].argv # <<>>
       /\ p[1].argv[1] \in {CD, EXIT, JOBS, FG, BG}
    THEN p[1].argv[1] ELSE <<>>

\* The children a line makes the shell fork, when no fork fails.
Commands(ln) ==
    LET p == parse_pipeline(tokenize(ln)).pipeline
    IN IF builtin_name(p) # <<>> THEN 0 ELSE Len(p)

\* launch_pipeline returns to main's loop.
LeaveLaunch ==
    /\ pipeline' = <<>>
    /\ background' = FALSE
    /\ l_i' = 0
    /\ l_pgid' = 0
    /\ prev_fd' = STDIN_FILENO
    /\ l_tab0' = {}

\* main, top of the loop: one "[id] Done" line per DONE job.
ReplAnnounce ==
    /\ pc = "drain" /\ ~pending
    /\ announced' = print_done(jobs, announced)
    /\ perr' = ""
    /\ pc' = "remove"
    /\ UNCHANGED <<env, textvars, jobs, next_job_id, term, procvars,
                   launchvars, fdvars, fgvars, created, sent>>

\* main: remove_done_jobs(), then on to the prompt.
ReplRemove ==
    /\ pc = "remove" /\ ~pending
    /\ jobs' = remove_done_jobs(jobs)
    /\ pc' = "prompt"
    /\ UNCHANGED <<env, textvars, perr, next_job_id, term, procvars,
                   launchvars, fdvars, fgvars, announced, created, sent>>

\* main: tokens = tokenize(line).
Tokenize ==
    /\ pc = "tok" /\ ~pending
    /\ tokens' = tokenize(line)
    /\ pc' = "parse"
    /\ UNCHANGED <<env, line, pipeline, background, perr, jobs, next_job_id, term,
                   procvars, launchvars, fdvars, fgvars, announced, created, sent>>

\* main: parse_pipeline(tokens, pipeline, background), "Parse error" when it
\* returns false.
Parse ==
    /\ pc = "parse" /\ ~pending
    /\ LET r == parse_pipeline(tokens) IN
       IF r.ok
       THEN /\ pipeline' = r.pipeline
            /\ background' = r.background
            /\ pc' = "dispatch"
            /\ UNCHANGED <<line, tokens, perr>>
       ELSE /\ perr' = "Parse error"
            /\ pc' = "drain"
            /\ line' = <<>>
            /\ tokens' = <<>>
            /\ UNCHANGED <<pipeline, background>>
    /\ UNCHANGED <<env, jobs, next_job_id, term, procvars, launchvars, fdvars, fgvars,
                   announced, created, sent>>

\* handle_builtin, "cd": chdir succeeds or fails with a diagnostic.
BuiltinCd ==
    /\ \E ok \in BOOLEAN : perr' = IF ok THEN perr ELSE "cd"
    /\ pc' = "drain"
    /\ UNCHANGED <<jobs, term, kids, fgvars>>

\* handle_builtin, "exit".
BuiltinExit ==
    /\ pc' = "exited"
    /\ UNCHANGED <<perr, jobs, term, kids, fgvars>>

\* handle_builtin, "jobs": remove_done_jobs(), then print_jobs().
BuiltinJobs ==
    /\ jobs' = remove_done_jobs(jobs)
    /\ pc' = "drain"
    /\ UNCHANGED <<perr, term, kids, fgvars>>

\* put_job_in_background(idx, true).
put_job_in_background(idx) ==
    /\ perr' = IF KillFinds(jobs[idx].pgid) THEN perr ELSE "kill (SIGCONT)"
    /\ kids' = ContGroup(kids, jobs[idx].pgid)
    /\ jobs' = [jobs EXCEPT ![idx].state = "RUNNING"]
    /\ pc' = "drain"
    /\ UNCHANGED <<term, fgvars>>

\* handle_builtin, "fg" and "bg".
BuiltinFgBg(argv) ==
    LET s == IF argv[2] # <<>> /\ argv[2][1] = "%" THEN Tail(argv[2]) ELSE argv[2]
        id == stoi(s)
        idx == find_job_index_by_id(jobs, id.val)
    IN IF Len(argv) < 2
       THEN /\ perr' = "usage"
            /\ pc' = "drain"
            /\ UNCHANGED <<jobs, term, kids, fgvars>>
       ELSE IF ~id.ok
       THEN /\ pc' = "crashed"
            /\ UNCHANGED <<perr, jobs, term, kids, fgvars>>
       ELSE IF idx = 0
       THEN /\ perr' = "no such job"
            /\ pc' = "drain"
            /\ UNCHANGED <<jobs, term, kids, fgvars>>
       ELSE IF argv[1] = FG
       THEN /\ f_idx' = idx
            /\ f_cont' = TRUE
            /\ pc' = "fg_tcset"
            /\ UNCHANGED <<perr, jobs, term, kids, f_status>>
       ELSE put_job_in_background(idx)

\* main after a successful parse into pipeline p and flag bg: a built-in runs
\* in the shell, anything else enters launch_pipeline.
dispatch(p, bg) ==
    IF builtin_name(p) = <<>>
    THEN /\ pc' = "l_spawn"
         /\ pipeline' = p
         /\ background' = bg
         /\ l_tab0' = Ids(jobs)
         /\ UNCHANGED <<perr, jobs, term, kids, fgvars>>
    ELSE /\ pipeline' = <<>>
         /\ background' = FALSE
         /\ UNCHANGED l_tab0
         /\ IF builtin_name(p) = CD THEN BuiltinCd
            ELSE IF builtin_name(p) = EXIT THEN BuiltinExit
            ELSE IF builtin_name(p) = JOBS THEN BuiltinJobs
            ELSE BuiltinFgBg(p[1].argv)

\* main after parse_pipeline, a step of its own.
Dispatch ==
    /\ pc = "dispatch" /\ ~pending
    /\ line' = <<>>
    /\ tokens' = <<>>
    /\ dispatch(pipeline, background)
    /\ UNCHANGED <<env, next_job_id, next_pid, pending, l_i, l_pgid, prev_fd, fdvars,
                   announced, created, sent>>

\* main from the prompt to the dispatch, in one step: the prompt is written
\* and getline reads the terminal, then tokenize, parse_pipeline and the
\* dispatch, none of which reads anything a child or the handler changes. A
\* shell that is not in the terminal's foreground group gets SIGTTIN
\* (default: it stops) or EIO (getline fails and the loop ends); end of input
\* ends the loop too.
ReplTurn ==
    /\ pc = "prompt" /\ ~pending
    /\ IF term # shell_pgid
       THEN /\ pc' = IF env = "dfl" THEN "stopped" ELSE "exited"
            /\ UNCHANGED <<pipeline, background, perr, jobs, term, kids, fgvars, l_tab0>>
       ELSE \/ /\ pc' = "exited"
               /\ UNCHANGED <<pipeline, background, perr, jobs, term, kids, fgvars, l_tab0>>
            \/ \E ln \in SessionLines :
                  /\ Commands(ln) <= shell_pgid + MaxKids + 1 - next_pid
                  /\ LET r == parse_pipeline(tokenize(ln)) IN
                     IF ln = <<>>
                     THEN /\ pc' = "drain"
                          /\ UNCHANGED <<pipeline, background, perr, jobs, term, kids,
                                         fgvars, l_tab0>>
                     ELSE IF ~r.ok
                     THEN /\ perr' = "Parse error"
                          /\ pc' = "drain"
                          /\ UNCHANGED <<pipeline, background, jobs, term, kids, fgvars,
                                         l_tab0>>
                     ELSE dispatch(r.pipeline, r.background)
    /\ UNCHANGED <<env, line, tokens, next_job_id, next_pid, pending, l_i, l_pgid,
                   prev_fd, fdvars, announced, created, sent>>

\* ------------------------------------------------------------- launcher

\* i + 1 < n: command l_i (from 0) writes into a pipe.
NeedsPipe == l_i + 1 < Len(pipeline)

\* The process fork creates for command l_i, as the parent's setpgid leaves
\* it: in the pipeline's group when that group still exists, else still in the
\* shell's. It holds what the shell holds, the write end of its pipe included.
\* A background child does nothing another process can see before execvp, so
\* only a foreground child is left before its tcsetpgrp (new).
spawn_process(pid) ==
    [st |-> "run", new |-> ~background,
     grp |-> IF l_pgid = 0 THEN pid ELSE l_pgid,
     pgid |-> IF l_pgid = 0 THEN pid
              ELSE IF GroupExists(l_pgid) THEN l_pgid ELSE shell_pgid,
     wst |-> "none",
     wr |-> sh_w \cup (IF NeedsPipe THEN {pid} ELSE {})]

launch_abort_to_add_job(what) ==
    /\ perr' = what
    /\ pc' = "addjob"
    /\ UNCHANGED <<pipeline, background, launchvars>>

\* launch_pipeline gives up: perror(what), return.
launch_abort(what) ==
    /\ perr' = what
    /\ pc' = "drain"
    /\ LeaveLaunch

\* launch_pipeline, one turn of the loop up to the fork: pipe() when a pipe is
\* needed, then spawn_process. pipe() failing returns at once; fork() failing
\* closes both ends of the new pipe and returns.
LaunchSpawn ==
    /\ pc = "l_spawn" /\ ~pending
    /\ \/ /\ NeedsPipe
          /\ launch_abort("pipe")
          /\ UNCHANGED <<kids, next_pid, fdvars>>
       \/ /\ launch_abort("fork")
          /\ UNCHANGED <<kids, next_pid, fdvars>>
       \/ /\ next_pid \in Pids
          /\ kids' = [kids EXCEPT ![next_pid] = spawn_process(next_pid)]
          /\ next_pid' = next_pid + 1
          /\ sh_r' = IF NeedsPipe THEN sh_r \cup {next_pid} ELSE sh_r
          /\ sh_w' = IF NeedsPipe THEN sh_w \cup {next_pid} ELSE sh_w
          /\ l_pgid' = IF l_pgid = 0 THEN next_pid ELSE l_pgid
          /\ pc' = "l_close"
          /\ UNCHANGED <<pipeline, background, perr, l_i, prev_fd, l_tab0>>
    /\ UNCHANGED <<env, line, tokens, jobs, next_job_id, term, pending, fgvars,
                   announced, created, sent>>

close_fds_read_end_only(r, w) == [r |-> sh_r \ {prev_fd}, w |-> sh_w]

\* launch_pipeline after the fork: close(prev_fd) and close(out_fd) unless
\* they are the shell's own stdin and stdout; r and w are the ends of the
\* pipe made for this command.
close_fds(r, w) == [r |-> sh_r \ {prev_fd}, w |-> sh_w \ {w}]

\* launch_pipeline, the rest of the turn: the closes, prev_fd = fdpipe[0].
LaunchClose ==
    /\ pc = "l_close" /\ ~pending
    /\ LET pid == next_pid - 1
           fds == close_fds(pid, pid)
       IN /\ sh_r' = fds.r
          /\ sh_w' = IF NeedsPipe THEN fds.w ELSE sh_w
          /\ prev_fd' = IF NeedsPipe THEN pid ELSE STDIN_FILENO
    /\ l_i' = l_i + 1
    /\ pc' = IF l_i + 1 < Len(pipeline) THEN "l_spawn" ELSE "addjob"
    /\ UNCHANGED <<env, textvars, perr, jobs, next_job_id, term, procvars, l_pgid, l_tab0,
                   fgvars, announced, created, sent>>

\* launch_pipeline after the loop: add_job, then the foreground wait or the
\* background announcement.
LaunchAddJob ==
    /\ pc = "addjob" /\ ~pending
    /\ jobs' = add_job(jobs, next_job_id, l_pgid, "RUNNING")
    /\ next_job_id' = next_job_id + 1
    /\ created' = created \cup {jobs'[Len(jobs')].id}
    /\ IF background
       THEN /\ pc' = "drain"
            /\ LeaveLaunch
            /\ UNCHANGED fgvars
       ELSE /\ pc' = "fg_tcset"
            /\ f_idx' = find_job_index_by_pgid(jobs', l_pgid)
            /\ f_cont' = FALSE
            /\ UNCHANGED <<pipeline, background, launchvars, f_status>>
    /\ UNCHANGED <<env, line, tokens, perr, term, procvars, fdvars, announced, sent>>

\* ------------------------------------------------------------- foreground

\* put_job_in_foreground returns: to launch_pipeline, which returns, or to
\* handle_builtin.
LeaveForeground ==
    /\ f_idx' = 0
    /\ f_cont' = FALSE
    /\ f_status' = "none"
    /\ LeaveLaunch

\* put_job_in_foreground: tcsetpgrp(shell_terminal, j.pgid), then SIGCONT to
\* the group for fg.
FgTakeTerminal ==
    /\ pc = "fg_tcset" /\ ~pending
    /\ LET g == jobs[f_idx].pgid
           r == tcsetpgrp(shell_pgid, g)
       IN IF r.out = "stop"
          THEN /\ pc' = "stopped"
               /\ kids' = StopGroup(kids, shell_pgid)
               /\ UNCHANGED <<term, perr>>
          ELSE /\ term' = r.term
               /\ pc' = "fg_wait"
               /\ kids' = IF f_cont THEN ContGroup(kids, g) ELSE kids
               /\ perr' = IF f_cont /\ ~KillFinds(g) THEN "kill (SIGCONT)" ELSE perr
    /\ UNCHANGED <<env, textvars, jobs, next_job_id, next_pid, pending, launchvars,
                   fdvars, fgvars, announced, created, sent>>

\* The children waitpid(-g, WUNTRACED) can return: a zombie, or one with a
\* stop to report.
Waitable(g) ==
    {k \in Pids : /\ kids[k].pgid = g
                  /\ \/ kids[k].st = "zomb"
                     \/ kids[k].st = "stop" /\ kids[k].wst = "stopped"}

\* put_job_in_foreground: waitpid(-j.pgid, &status, WUNTRACED) returns one
\* child's exit or stop, or -1 when the group has no child left. It returns a
\* status that is there even with SIGCHLD pending.
FgWait ==
    /\ pc = "fg_wait"
    /\ LET g == jobs[f_idx].pgid IN
       \/ \E k \in Waitable(g) :
             /\ kids' = [kids EXCEPT ![k] = IF kids[k].st = "zomb" THEN Reaped(kids[k])
                                            ELSE [kids[k] EXCEPT !.wst = "none"]]
             /\ f_status' = IF kids[k].st = "zomb" THEN "exited" ELSE "stopped"
       \/ /\ ~KillFinds(g)
          /\ f_status' = "none"
          /\ UNCHANGED kids
    /\ pc' = "fg_mark"
    /\ UNCHANGED <<env, textvars, perr, jobs, next_job_id, term, next_pid, pending,
                   launchvars, fdvars, f_idx, f_cont, announced, created, sent>>

\* put_job_in_foreground after the wait: STOPPED for a stop, DONE for an exit
\* or a killing signal, nothing when waitpid failed.
mark_job(js, idx, status) ==
    IF status = "stopped" THEN [js EXCEPT ![idx].state = "STOPPED"]
    ELSE IF status = "exited" THEN [js EXCEPT ![idx].state = "DONE"]
    ELSE js

\* put_job_in_foreground, the end: the job's state, then
\* tcsetpgrp(shell_terminal, shell_pgid).
FgReclaim ==
    /\ pc = "fg_mark" /\ ~pending
    /\ jobs' = mark_job(jobs, f_idx, f_status)
    /\ LET r == tcsetpgrp(shell_pgid, shell_pgid) IN
       IF r.out = "stop"
       THEN /\ pc' = "stopped"
            /\ kids' = StopGroup(kids, shell_pgid)
            /\ UNCHANGED <<term, pipeline, background, launchvars, fgvars>>
       ELSE /\ term' = r.term
            /\ pc' = "drain"
            /\ LeaveForeground
            /\ UNCHANGED kids
    /\ UNCHANGED <<env, line, tokens, perr, next_job_id, next_pid, pending, fdvars,
                   announced, created, sent>>

\* ------------------------------------------------------------- SIGINT, SIGTSTP

\* kill(-g, SIGINT): the processes of g that run their program (signals back
\* at their defaults) are killed; a stopped process keeps the signal pending
\* and a child still before its signal() calls catches it.
IntGroup(ks, g) ==
    [k \in Pids |-> IF ks[k].st = "run" /\ ~ks[k].new /\ ks[k].pgid = g
                    THEN [ks[k] EXCEPT !.st = "zomb", !.wst = "none"]
                    ELSE ks[k]]

\* kill(-g, SIGTSTP): the processes of g that run their program stop.
TstpGroup(ks, g) ==
    [k \in Pids |-> IF ks[k].st = "run" /\ ~ks[k].new /\ ks[k].pgid = g
                    THEN [ks[k] EXCEPT !.st = "stop", !.wst = "stopped"]
                    ELSE ks[k]]

\* SIGINT is delivered to the shell process while another group owns the
\* terminal: fg = tcgetpgrp(shell_terminal), kill(-fg, SIGINT). With the
\* shell's own group in the foreground the handler does nothing.
sigint_handler ==
    /\ ~Halted
    /\ term # shell_pgid
    /\ kids' = IntGroup(kids, term)
    /\ pending' = (pending \/ kids' # kids)
    /\ sent' = sent \cup {"SIGINT"}
    /\ UNCHANGED <<env, pc, textvars, perr, jobs, next_job_id, term, next_pid,
                   launchvars, fdvars, fgvars, announced, created>>

\* SIGTSTP is delivered to the shell process while another group owns the
\* terminal: kill(-fg, SIGTSTP).
sigtstp_handler ==
    /\ ~Halted
    /\ term # shell_pgid
    /\ kids' = TstpGroup(kids, term)
    /\ sent' = sent \cup {"SIGTSTP"}
    /\ UNCHANGED <<env, pc, textvars, perr, jobs, next_job_id, term, next_pid, pending,
                   launchvars, fdvars, fgvars, announced, created>>

\* ------------------------------------------------------------- specification

Init ==
    /\ env \in Envs
    /\ pc = "drain"
    /\ line = <<>>
    /\ tokens = <<>>
    /\ pipeline = <<>>
    /\ background = FALSE
    /\ perr = ""
    /\ jobs = <<>>
    /\ next_job_id = 1
    /\ term = shell_pgid
    /\ kids = [k \in Pids |-> NoKid]
    /\ next_pid = shell_pgid + 1
    /\ pending = FALSE
    /\ l_i = 0
    /\ l_pgid = 0
    /\ prev_fd = STDIN_FILENO
    /\ sh_r = {}
    /\ sh_w = {}
    /\ f_idx = 0
    /\ f_cont = FALSE
    /\ f_status = "none"
    /\ announced = [id \in 1..MaxKids |-> 0]
    /\ created = {}
    /\ sent = {}
    /\ l_tab0 = {}

Next ==
    \/ ReplAnnounce
    \/ ReplRemove
    \/ ReplTurn
    \/ LaunchSpawn
    \/ LaunchClose
    \/ LaunchAddJob
    \/ FgTakeTerminal
    \/ FgWait
    \/ FgReclaim
    \/ sigchld_handler
    \/ \E k \in Pids : ChildStart(k) \/ ChildExit(k) \/ ChildStop(k)

Spec == Init /\ [][Next]_vars

\* What the shell process does: the steps of its main flow and of its SIGCHLD
\* handler.
ShellStep ==
    \/ ReplAnnounce
    \/ ReplRemove
    \/ ReplTurn
    \/ LaunchSpawn
    \/ LaunchClose
    \/ LaunchAddJob
    \/ FgTakeTerminal
    \/ FgWait
    \/ FgReclaim
    \/ sigchld_handler

\* The session with a shell process that is scheduled: it takes its next step
\* whenever it has one. Nothing is assumed of the children.
LiveSpec == Init /\ [][Next]_vars /\ WF_vars(ShellStep)

\* The same session in which SIGINT and SIGTSTP also reach the shell process
\* itself (kill from another process).
NextSignal == Next \/ sigint_handler \/ sigtstp_handler

SignalSpec == Init /\ [][NextSignal]_vars

\* ------------------------------------------------------------- claims

\* C1: whenever the REPL is about to print a prompt, the terminal's
\* foreground process group is shell_pgid.
C1_PromptOwnsTerminal == pc = "prompt" => term = shell_pgid

\* The processes forked for the pipeline whose group id is g.
Members(g) == {k \in Pids : kids[k].st # "none" /\ kids[k].grp = g}

AllTerminated(g) == \A k \in Members(g) : kids[k].st \in {"zomb", "gone"}

AllReaped(g) == \A k \in Members(g) : kids[k].st = "gone"

\* C2: when the REPL drains at the top of its loop, every job whose
\* processes have all terminated and been reaped (by the handler or by the
\* foreground wait) has its "[id] Done" line written by then.
C2_DoneBeforePrompt ==
    [][(pc = "drain" /\ pc' = "remove") =>
          \A i \in 1..Len(jobs) : AllReaped(jobs[i].pgid) => announced'[jobs[i].id] > 0]_vars

\* C3: a job is DONE only if every process of its pipeline has exited or
\* been killed.
C3_DoneMeansAllTerminated ==
    \A i \in 1..Len(jobs) : jobs[i].state = "DONE" => AllTerminated(jobs[i].pgid)

\* C4: a job that has left the table had exactly one "[id] Done" line, and no
\* job has more than one.
C4_ExactlyOneDoneLine ==
    \A id \in created :
        /\ announced[id] <= 1
        /\ id \notin Ids(jobs) => announced[id] = 1

\* C5: a job that enters the table has an id greater than every id add_job
\* assigned before, the ids of removed jobs included.
C5_IdsIncrease ==
    [][\A id \in Ids(jobs') \ Ids(jobs) : \A old \in created : id > old]_vars

\* C5's case: a job created after an earlier job has been removed.
C5_Witness ==
    \E old \in created : old \notin Ids(jobs) /\ \E id \in Ids(jobs) : id > old

\* launch_pipeline returns in this step.
LaunchReturns ==
    /\ pc' = "drain"
    /\ \/ pc \in {"l_spawn", "addjob"}
       \/ pc = "fg_mark" /\ ~f_cont

\* C6: when launch_pipeline returns, either the table holds exactly one job
\* more than at entry, with an id no job had at entry and pgid > 0, and no
\* pipe or fork error was reported, or such an error was reported and the
\* table holds the jobs it held at entry.
C6_JobOrError ==
    [][LaunchReturns =>
          \/ /\ perr' \notin {"pipe", "fork"}
             /\ Len(jobs') = Cardinality(l_tab0) + 1
             /\ \E i \in 1..Len(jobs') :
                   /\ jobs'[i].id \notin l_tab0
                   /\ jobs'[i].pgid > 0
                   /\ Ids(jobs') = l_tab0 \cup {jobs'[i].id}
                   /\ \A h \in 1..Len(jobs') : h # i => jobs'[h].id # jobs'[i].id
          \/ /\ perr' \in {"pipe", "fork"}
             /\ Len(jobs') = Cardinality(l_tab0)
             /\ Ids(jobs') = l_tab0]_vars

\* C6's case: launch_pipeline has returned on a failed fork after it had
\* forked a child, beside a job from an earlier launch.
C6_Witness ==
    /\ pc = "drain" /\ perr = "fork"
    /\ Len(jobs) = 1
    /\ \E k \in Pids : Live(k) /\ kids[k].grp # jobs[1].pgid

\* C7: the shell holds no pipe write end when it is about to fork the next
\* child or is outside the launcher's loop, between a fork and its closes
\* it holds at most the write end of the pipe just made, and no process but
\* child i holds the write end of pipe i.
C7_NoWriteEndInShell ==
    /\ pc # "l_close" => sh_w = {}
    /\ pc = "l_close" => sh_w \subseteq {next_pid - 1}
    /\ \A k \in Pids : kids[k].wr \subseteq {k}

\* C7's case: child 0 of a pipeline holds the write end of its pipe and the
\* shell is about to fork child 1.
C7_Witness ==
    /\ pc = "l_spawn" /\ l_i = 1
    /\ kids[next_pid - 1].wr = {next_pid - 1}

\* ------------------------------------------------------------- parser alone

\* Every line of at most MaxLen characters of the alphabet.
AllLines == UNION {[1..n -> Alphabet] : n \in 0..MaxLen}

\* Lines that name a built-in, with and without arguments and redirections.
BuiltinLines ==
    { CD, CD \o <<" ", "a">>, CD \o <<">", "a">>, CD \o <<" ", "a", ">", "a">>,
      EXIT, EXIT \o <<">", "a">>,
      JOBS,
      FG, FG \o <<" ", "1">>, FG \o <<" ", "%", "1">>, FG \o <<" ", "a">>,
      FG \o <<" ", "%">>, FG \o <<" ", "1", "<", "a">>,
      BG, BG \o <<" ", "1">>, BG \o <<" ", "a">>, BG \o <<" ", "1", ">", ">", "a">> }

\* The REPL with a line read, any line: it tokenizes, parses and dispatches.
InitParse ==
    /\ env \in Envs
    /\ pc = "tok"
    /\ line \in AllLines \cup BuiltinLines
    /\ tokens = <<>>
    /\ pipeline = <<>>
    /\ background = FALSE
    /\ perr = ""
    /\ jobs = <<>>
    /\ next_job_id = 1
    /\ term = shell_pgid
    /\ kids = [k \in Pids |-> NoKid]
    /\ next_pid = shell_pgid + 1
    /\ pending = FALSE
    /\ l_i = 0
    /\ l_pgid = 0
    /\ prev_fd = STDIN_FILENO
    /\ sh_r = {}
    /\ sh_w = {}
    /\ f_idx = 0
    /\ f_cont = FALSE
    /\ f_status = "none"
    /\ announced = [id \in 1..MaxKids |-> 0]
    /\ created = {}
    /\ sent = {}
    /\ l_tab0 = {}

NextParse == Tokenize \/ Parse \/ Dispatch

ParseSpec == InitParse /\ [][NextParse]_vars

\* What each token is on a walk from the left in which a redirection
\* operator takes the token after it as its file name: "pipe", "redir",
\* "file", "amp" or "word".
RECURSIVE token_kinds(_, _, _)
token_kinds(ts, i, acc) ==
    IF i > Len(ts) THEN acc
    ELSE IF ts[i] \in {LT, GT, GTGT}
    THEN IF i + 1 <= Len(ts) THEN token_kinds(ts, i + 2, acc \o <<"redir", "file">>)
         ELSE token_kinds(ts, i + 1, Append(acc, "redir"))
    ELSE token_kinds(ts, i + 1,
                     Append(acc, IF ts[i] = PIPE THEN "pipe"
                                 ELSE IF ts[i] = AMP THEN "amp" ELSE "word"))

TokenKinds(ts) == token_kinds(ts, 1, <<>>)

\* Some "|" of ts has no command word between it and the "|" before it (or
\* the start), or between it and the "|" after it (or the end).
PipeLacksSide(ts) ==
    LET kind == TokenKinds(ts) IN
    \E i \in 1..Len(ts) :
        /\ kind[i] = "pipe"
        /\ LET before == {h \in 1..(i - 1) : kind[h] = "pipe"}
               after == {h \in (i + 1)..Len(ts) : kind[h] = "pipe"}
               lo == IF before = {} THEN 1
                     ELSE (CHOOSE h \in before : \A g \in before : g <= h) + 1
               hi == IF after = {} THEN Len(ts)
                     ELSE (CHOOSE h \in after : \A g \in after : h <= g) - 1
           IN \/ \A j \in lo..(i - 1) : kind[j] # "word"
              \/ \A j \in (i + 1)..hi : kind[j] # "word"

\* C8: parse_pipeline accepts no token sequence in which a "|" lacks a
\* command on its left or on its right.
C8_PipeNeedsBothSides == pc = "dispatch" => ~PipeLacksSide(tokens)

\* C9: parse_pipeline accepts no token sequence with the "&" operator before
\* its last token, and no accepted command has "&" in its argv.
C9_AmpersandOnlyLast ==
    pc = "dispatch" =>
        /\ \A i \in 1..(Len(tokens) - 1) : TokenKinds(tokens)[i] # "amp"
        /\ \A c \in 1..Len(pipeline) :
              \A a \in 1..Len(pipeline[c].argv) : pipeline[c].argv[a] # AMP

\* The quote a line leaves open at its end: "s", "d" or "none".
RECURSIVE OpenQuote(_, _, _)
OpenQuote(ln, i, q) ==
    IF i > Len(ln) THEN q
    ELSE OpenQuote(ln, i + 1,
                   IF q = "none" THEN (IF ln[i] = SQ THEN "s" ELSE IF ln[i] = DQ THEN "d" ELSE q)
                   ELSE IF q = "s" THEN (IF ln[i] = SQ THEN "none" ELSE q)
                   ELSE (IF ln[i] = DQ THEN "none" ELSE q))

UnmatchedQuote(ln) == OpenQuote(ln, 1, "none") # "none"

\* C10: a line with an unmatched quote gets a parse error: the REPL never
\* has a pipeline of it to dispatch.
C10_UnmatchedQuoteRejected == pc = "dispatch" => ~UnmatchedQuote(line)


\* The pipeline is one command whose argv[0] is one of the names.
SingleCommandNamed(names) ==
    /\ Len(pipeline) = 1
    /\ pipeline[1].argv # <<>>
    /\ pipeline[1].argv[1] \in names

\* C11: a single command named cd, exit, fg or bg is never handed to
\* launch_pipeline, with or without a redirection.
C11_BuiltinNeverForked ==
    [][(pc = "dispatch" /\ SingleCommandNamed({CD, EXIT, FG, BG})) => pc' # "l_spawn"]_vars

\* C12: after cd, fg or bg, whatever the argument, the shell is still running,
\* and where the built-in reported an error the REPL continues with the job
\* table as it was.
C12_BuiltinErrorsKeepShell ==
    [][(pc = "dispatch" /\ builtin_name(pipeline) \in {CD, FG, BG}) =>
          /\ pc' \notin {"crashed", "exited"}
          /\ perr' \in {"cd", "usage", "no such job"} => (pc' = "drain" /\ jobs' = jobs)]_vars

\* C20: every command of an accepted pipeline has a non-empty argv.
C20_ArgvNotEmpty ==
    pc = "dispatch" => \A c \in 1..Len(pipeline) : pipeline[c].argv # <<>>

\* C14: a run of the SIGCHLD handler (the step that takes the pending signal)
\* reaps no child and neither reads nor writes the job table: processes and
\* job table are after it what they were before.
C14_HandlerOnlySetsFlag ==
    [][(pending /\ ~pending') => (kids' = kids /\ jobs' = jobs)]_vars

\* C15: no tcsetpgrp the shell calls in put_job_in_foreground, to hand the
\* terminal over or to reclaim it, stops the shell.
C15_ShellNeverStoppedByTcsetpgrp ==
    [][(pc \in {"fg_tcset", "fg_mark"}) => (pc' # "stopped")]_vars

\* C16: every job's pgid is the pid of a child forked for its pipeline, and
\* every living child forked for the pipeline is in process group pgid from
\* add_job on, which is before the parent's tcsetpgrp, waitpid(-pgid) and
\* kill(-pgid).
C16_ChildrenInJobGroup ==
    \A i \in 1..Len(jobs) :
        /\ jobs[i].pgid \in Pids
        /\ kids[jobs[i].pgid].grp = jobs[i].pgid
        /\ \A k \in Members(jobs[i].pgid) : Live(k) => kids[k].pgid = jobs[i].pgid

\* C17: when launch_pipeline returns on a failed pipe() or fork(), the shell
\* holds no end of any pipe of the pipeline, and the children it had spawned
\* are as they were.
C17_AbortClosesPipeFds ==
    [][(pc = "l_spawn" /\ pc' = "drain") => (sh_r' = {} /\ sh_w' = {} /\ kids' = kids)]_vars

\* C19: the job table is in strictly ascending order of id.
C19_TableAscending ==
    \A i \in 1..Len(jobs) : \A h \in 1..(i - 1) : jobs[h].id < jobs[i].id

\* C19's case: two jobs in the table, between which a job was created and
\* has been removed.
C19_Witness ==
    /\ Len(jobs) = 2
    /\ \E old \in created : jobs[1].id < old /\ old < jobs[2].id

\* C18: the shell never passes SIGINT or SIGTSTP on to a process group.
C18_ShellSendsNoSignal == sent = {}

\* Every process forked for the foreground job has exited, been killed or
\* been stopped.
FgSettled ==
    /\ f_idx \in 1..Len(jobs)
    /\ \A k \in Members(jobs[f_idx].pgid) : kids[k].st \in {"stop", "zomb", "gone"}

\* C13: once the shell is in put_job_in_foreground's wait and every process
\* of the job has exited, been killed or been stopped, the wait eventually
\* returns.
C13_ForegroundWaitReturns ==
    (pc = "fg_wait" /\ FgSettled) ~> (pc # "fg_wait")
=============================================================================
